---- MODULE Spec2Model ----
(***************************************************************************)
(* Model of src/main.cpp: the command-line front end of the lens            *)
(* reprojection tool.  main() validates its options, derives the output     *)
(* configuration, saves it, and then pushes one task per input image onto   *)
(* a ctpl thread pool; each task (the lambda of submit_file) checks         *)
(* skip-if-exists, decodes, reprojects, colour-processes, encodes and       *)
(* reports progress.  The main thread and the pool's workers interleave at  *)
(* every access to shared state: the task queue, the output directory,      *)
(* done_count and count.                                                    *)
(***************************************************************************)
EXTENDS Integers, Sequences, FiniteSets, TLC

\* ------------------------------------------------------------------ bounds

\* The most regular files the input directory holds.
MaxFiles == 2

\* The most input files whose decode throws (unreadable or corrupt).
MaxCorrupt == 1

\* ------------------------------------------------------------------ inputs

\* File names of the input directory, in std::sort order of their paths.
AllFiles == << "a.exr", "a.jpg", "a.png", "b.png" >>

\* fs::path::stem() of each file name.
Stem(f) ==
  CASE f = "a.exr" -> "a"
    [] f = "a.jpg" -> "a"
    [] f = "a.png" -> "a"
    [] f = "b.png" -> "b"

\* fs::path::extension() of each file name.
Extension(f) ==
  CASE f = "a.exr" -> ".exr"
    [] f = "a.jpg" -> ".jpg"
    [] f = "a.png" -> ".png"
    [] f = "b.png" -> ".png"

\* (output_dir / p.filename()).replace_extension(ext): the last extension of
\* the file name is dropped and ext is appended.
ReplaceExtension(f, ext) ==
  CASE Stem(f) = "a" /\ ext = ".png" -> "out/a.png"
    [] Stem(f) = "a" /\ ext = ".exr" -> "out/a.exr"
    [] Stem(f) = "b" /\ ext = ".png" -> "out/b.png"
    [] Stem(f) = "b" /\ ext = ".exr" -> "out/b.exr"

output_path_png(f) == ReplaceExtension(f, ".png")
output_path_exr(f) == ReplaceExtension(f, ".exr")

\* Every path a task can write in the output directory.
OutPaths == { "out/a.png", "out/a.exr", "out/b.png", "out/b.exr" }

\* The output-optics options of the command line.
LensOptions == { "rectilinear", "equisolid", "equidistant", "no-reproject" }

\* --scale values, as fractions num/den.
Scales == { [num |-> 1, den |-> 2], [num |-> 1, den |-> 1], [num |-> 3, den |-> 2] }

\* "resolution" entries of the input config.
Resolutions == { << 3, 2 >>, << 4, 3 >> }

\* --parallel values, besides one thread per input file.
PoolWidths == { 1, 2 }

\* A --parallel value above the number of input files.
WidePool == { 4 }

\* int(x * scale) for x >= 0: the product rounded toward zero.
ScaleInt(x, s) == (x * s.num) \div s.den

\* std::sort of a set of paths: the names of S in the order of AllFiles.
SortedSeq(S) ==
  LET RECURSIVE Build(_, _)
      Build(T, i) ==
        IF i > Len(AllFiles) THEN << >>
        ELSE IF AllFiles[i] \in T THEN << AllFiles[i] >> \o Build(T, i + 1)
        ELSE Build(T, i + 1)
  IN Build(S, 1)

FileSet == { AllFiles[i] : i \in 1..Len(AllFiles) }

\* ------------------------------------------------------------------- state

VARIABLES
  args,       \* the parsed command line (result, and the locals set from it)
  dir,        \* regular files of --input-dir, or the one file of --single
  corrupt,    \* input files whose decode throws
  res,        \* "resolution" of the input config file
  disk0,      \* output paths that exist when the program starts
  pc,         \* position of the main thread
  exit_code,  \* value returned by main ("running" before it returns)
  cfg,        \* nlohmann::json cfg
  out_cfg,    \* nlohmann::json out_cfg
  output_lens,              \* reproject::LensInfo output_lens (its type)
  output_lens_types_found,  \* int output_lens_types_found
  reproject,  \* bool reproject
  saved_cfg,  \* the documents written to --output-cfg (none before)
  paths,      \* files main has still to submit, in order
  count,      \* int count (plain int, captured by reference)
  done_count, \* std::atomic_int done_count
  queue,      \* the pool's task queue: input files of the pushed tasks
  worker,     \* per pool thread: the file of the task it runs, or "idle"
  st,         \* per input file: the stage its task is at
  calls,      \* per input file: the collaborator calls its task has made
  input_data, \* per input file: input.data is allocated
  output_data,\* per input file: output.data is allocated
  line,       \* per input file: <<dc, count>> of its progress line
  disk,       \* output directory: per path its content (the input it was
              \* produced from, "old" when it predates the run, "absent")
  writers,    \* per output path: the tasks that have written it
  crashed     \* the process died on undefined behaviour

vars == << args, dir, corrupt, res, disk0, pc, exit_code, cfg, out_cfg,
           output_lens, output_lens_types_found, reproject, saved_cfg, paths,
           count, done_count, queue, worker, st, calls, input_data,
           output_data, line, disk, writers, crashed >>

inputVars == << args, dir, corrupt, res, disk0 >>
cfgVars == << cfg, out_cfg, output_lens, output_lens_types_found, reproject,
              saved_cfg >>
taskVars == << st, calls, input_data, output_data, line >>

\* ------------------------------------------------------------ initial state

\* Command lines that exercise option validation and the config output.
ConfigArgs ==
  [ lens : SUBSET LensOptions, scale : Scales, dry_run : BOOLEAN,
    skip_if_exists : {FALSE}, store_png : BOOLEAN, store_exr : BOOLEAN,
    auto_exposure : BOOLEAN, num_threads : {1}, single : {FALSE} ]

\* Command lines that exercise the batch pipeline.
PipelineArgs ==
  [ lens : { {"rectilinear"} }, scale : { [num |-> 1, den |-> 1] },
    dry_run : {FALSE}, skip_if_exists : BOOLEAN,
    store_png : BOOLEAN, store_exr : BOOLEAN, auto_exposure : {FALSE},
    num_threads : PoolWidths \cup 1..MaxFiles, single : BOOLEAN ]

\* Command lines that run the pipeline on a pool wider than its input.
WidePoolArgs ==
  [ lens : { {"rectilinear"} }, scale : { [num |-> 1, den |-> 1] },
    dry_run : {FALSE}, skip_if_exists : BOOLEAN,
    store_png : {TRUE}, store_exr : {FALSE}, auto_exposure : {FALSE},
    num_threads : WidePool, single : {FALSE} ]

\* Input directories: at most MaxFiles regular files.
Directories ==
  { SortedSeq(S) : S \in { T \in SUBSET FileSet : Cardinality(T) <= MaxFiles } }

Range(s) == { s[i] : i \in 1..Len(s) }

InitProgram ==
  /\ pc = "parse"
  /\ exit_code = "running"
  /\ cfg = [resolution |-> << 0, 0 >>]
  /\ out_cfg = [resolution |-> << 0, 0 >>, lens |-> "none"]
  /\ output_lens = "indeterminate"
  /\ output_lens_types_found = 0
  /\ reproject = TRUE
  /\ saved_cfg = << >>
  /\ paths = << >>
  /\ count = 0
  /\ done_count = 0
  /\ queue = << >>
  /\ worker = << >>
  /\ st = [f \in FileSet |-> "None"]
  /\ calls = [f \in FileSet |-> {}]
  /\ input_data = [f \in FileSet |-> FALSE]
  /\ output_data = [f \in FileSet |-> FALSE]
  /\ line = [f \in FileSet |-> << >>]
  /\ disk = [o \in OutPaths |-> IF o \in disk0 THEN "old" ELSE "absent"]
  /\ writers = [o \in OutPaths |-> {}]
  /\ crashed = FALSE

Init ==
  /\ \/ /\ args \in PipelineArgs
        /\ args.store_png \/ args.store_exr
        /\ dir \in Directories
        /\ args.single => Len(dir) = 1
        /\ args.num_threads \in (PoolWidths \cup {Len(dir)}) \ {0}
        /\ corrupt \in { C \in SUBSET Range(dir) : Cardinality(C) <= MaxCorrupt }
        /\ res = << 4, 3 >>
        /\ disk0 \in { {}, {"out/a.png"}, OutPaths }
     \/ /\ args \in WidePoolArgs
        /\ dir \in Directories
        /\ corrupt = {}
        /\ res = << 4, 3 >>
        /\ disk0 \in { {}, OutPaths }
     \/ /\ args \in ConfigArgs
        /\ dir = << "a.png" >>
        /\ corrupt = {}
        /\ res \in Resolutions
        /\ disk0 = {}
  /\ InitProgram

\* ------------------------------------------------------------- main thread

\* main.cpp:95-170.  Options are parsed into locals; no output format is an
\* error.  The command lines of Init give exactly one of --input-dir and
\* --single, well-formed lens tuples and empty --filter-prefix/-suffix, so
\* the errors of lines 116-129 and 229-249 and the filters do not arise.
ParseArgs ==
  /\ pc = "parse"
  /\ IF ~args.store_exr /\ ~args.store_png
     THEN /\ pc' = "exit_error"
          /\ exit_code' = "1"
          /\ UNCHANGED reproject
     ELSE /\ pc' = "load"
          /\ reproject' = ("no-reproject" \notin args.lens)
          /\ UNCHANGED exit_code
  /\ UNCHANGED << inputVars, cfg, out_cfg, output_lens,
                  output_lens_types_found, saved_cfg, paths, count,
                  done_count, queue, worker, taskVars, disk, writers, crashed >>

\* main.cpp:194-220.  cfg is read and out_cfg starts as its copy (with the
\* empty filters no frame is erased).
LoadConfig ==
  /\ pc = "load"
  /\ cfg' = [resolution |-> res]
  /\ out_cfg' = [resolution |-> res, lens |-> "input_lens"]
  /\ pc' = "lens"
  /\ UNCHANGED << inputVars, exit_code, output_lens, output_lens_types_found,
                  reproject, saved_cfg, paths, count, done_count, queue,
                  worker, taskVars, disk, writers, crashed >>

\* main.cpp:224-275.  output_lens.type after the option blocks ran in order.
OutputLensType ==
  IF ~reproject THEN "input_lens"
  ELSE IF "equidistant" \in args.lens THEN "FISHEYE_EQUISOLID"
  ELSE IF "equisolid" \in args.lens THEN "FISHEYE_EQUISOLID"
  ELSE IF "rectilinear" \in args.lens THEN "RECTILINEAR"
  ELSE "indeterminate"

\* main.cpp:225-275.  One increment per option block that ran.
LensTypesFound ==
    (IF "rectilinear" \in args.lens THEN 1 ELSE 0)
  + (IF "equisolid" \in args.lens THEN 1 ELSE 0)
  + (IF "equidistant" \in args.lens THEN 1 ELSE 0)
  + (IF ~reproject THEN 1 ELSE 0)

\* main.cpp:282.  The test that rejects the output-lens selection.
LensSelectionRejected(found) == found > 1

\* main.cpp:222-286.  The output lens is chosen and stored in out_cfg, the
\* resolution is scaled, then the number of lens options is checked.
SelectOutputLens ==
  /\ pc = "lens"
  /\ output_lens' = OutputLensType
  /\ output_lens_types_found' = LensTypesFound
  /\ out_cfg' = [out_cfg EXCEPT !.lens = OutputLensType]
  /\ cfg' = [cfg EXCEPT !.resolution = << ScaleInt(res[1], args.scale),
                                          ScaleInt(res[2], args.scale) >>]
  /\ IF LensSelectionRejected(LensTypesFound)
     THEN /\ pc' = "exit_error"
          /\ exit_code' = "1"
     ELSE /\ pc' = "save"
          /\ UNCHANGED exit_code
  /\ UNCHANGED << inputVars, reproject, saved_cfg, paths, count, done_count,
                  queue, worker, taskVars, disk, writers, crashed >>

\* main.cpp:288-294.  The output directory is created and out_cfg is saved.
SaveConfig ==
  /\ pc = "save"
  /\ saved_cfg' = << out_cfg >>
  /\ pc' = "dry"
  /\ UNCHANGED << inputVars, exit_code, cfg, out_cfg, output_lens,
                  output_lens_types_found, reproject, paths, count,
                  done_count, queue, worker, taskVars, disk, writers, crashed >>

\* main.cpp:296-299.
DryRunExit ==
  /\ pc = "dry"
  /\ args.dry_run
  /\ pc' = "exit_dry"
  /\ exit_code' = "0"
  /\ UNCHANGED << inputVars, cfgVars, paths, count, done_count, queue, worker,
                  taskVars, disk, writers, crashed >>

\* main.cpp:301-303 and 379-390, 407-408.  The pool starts its threads and
\* the inputs are listed: the sorted regular files of the directory, or the
\* single file.
CreatePool ==
  /\ pc = "dry"
  /\ ~args.dry_run
  /\ worker' = [w \in 1..args.num_threads |-> "idle"]
  /\ paths' = dir
  /\ pc' = "loop"
  /\ UNCHANGED << inputVars, exit_code, cfgVars, count, done_count, queue,
                  taskVars, disk, writers, crashed >>

\* main.cpp:403.  Directory entries with another extension are not submitted.
Accepted(f) == args.single \/ Extension(f) \in { ".exr", ".png" }

\* main.cpp:391-406.  A directory entry that is not an image is passed over.
SkipEntry ==
  /\ pc = "loop"
  /\ ~crashed
  /\ paths # << >>
  /\ ~Accepted(Head(paths))
  /\ paths' = Tail(paths)
  /\ UNCHANGED << inputVars, pc, exit_code, cfgVars, count, done_count, queue,
                  worker, taskVars, disk, writers, crashed >>

\* main.cpp:305-375.  submit_file pushes the task; from here a pool thread
\* may run it.
SubmitPush ==
  /\ pc = "loop"
  /\ ~crashed
  /\ paths # << >>
  /\ Accepted(Head(paths))
  /\ queue' = Append(queue, Head(paths))
  /\ st' = [st EXCEPT ![Head(paths)] = "Pending"]
  /\ pc' = "count"
  /\ UNCHANGED << inputVars, exit_code, cfgVars, paths, count, done_count,
                  worker, calls, input_data, output_data, line, disk, writers,
                  crashed >>

\* main.cpp:376.  count++ after the push.
SubmitCount ==
  /\ pc = "count"
  /\ ~crashed
  /\ count' = count + 1
  /\ paths' = Tail(paths)
  /\ pc' = "loop"
  /\ UNCHANGED << inputVars, exit_code, cfgVars, done_count, queue, worker,
                  taskVars, disk, writers, crashed >>

\* Mutant of StopIsWait: pool.stop() with its default argument, which drops
\* the tasks still queued.
StopWithoutWait == FALSE

\* main.cpp:412.  The argument of pool.stop.
StopIsWait == TRUE

\* main.cpp:412.  pool.stop(isWait) begins: without isWait the queue is
\* cleared, with it the threads drain the queue.
PoolStop ==
  /\ pc = "loop"
  /\ ~crashed
  /\ paths = << >>
  /\ queue' = IF StopIsWait THEN queue ELSE << >>
  /\ pc' = "join"
  /\ UNCHANGED << inputVars, exit_code, cfgVars, paths, count, done_count,
                  worker, taskVars, disk, writers, crashed >>

\* main.cpp:412-414.  pool.stop returns once every thread has ended, which a
\* thread does when it finds the queue empty; main returns 0.
PoolJoin ==
  /\ pc = "join"
  /\ ~crashed
  /\ queue = << >>
  /\ \A w \in DOMAIN worker : worker[w] = "idle"
  /\ pc' = "returned"
  /\ exit_code' = "0"
  /\ UNCHANGED << inputVars, cfgVars, paths, count, done_count, queue, worker,
                  taskVars, disk, writers, crashed >>

\* ------------------------------------------------------------ pool threads

\* Mutant of Exists: the EXR output is not looked at.
ExistsPngOnly(f) ==
  args.store_png => disk[output_path_png(f)] # "absent"

\* main.cpp:315-321.  bool exists: every selected output format is on disk.
Exists(f) ==
  /\ args.store_png => disk[output_path_png(f)] # "absent"
  /\ args.store_exr => disk[output_path_exr(f)] # "absent"

\* Mutant of Catch: the failed task is counted as done.
CatchCounting(w, f) ==
  /\ st' = [st EXCEPT ![f] = "Failed"]
  /\ worker' = [worker EXCEPT ![w] = "idle"]
  /\ done_count' = done_count + 1
  /\ UNCHANGED << line, input_data, output_data, calls, disk, writers,
                  crashed >>

\* main.cpp:372-374.  The catch at the end of the task: the error is printed
\* and the task returns; nothing else is touched.
Catch(w, f) ==
  /\ st' = [st EXCEPT ![f] = "Failed"]
  /\ worker' = [worker EXCEPT ![w] = "idle"]
  /\ UNCHANGED << done_count, line, input_data, output_data, calls, disk,
                  writers, crashed >>

\* A pool thread pops the next task of the queue and calls it (ctpl).
Take(w) ==
  /\ ~crashed
  /\ worker[w] = "idle"
  /\ queue # << >>
  /\ worker' = [worker EXCEPT ![w] = Head(queue)]
  /\ queue' = Tail(queue)
  /\ UNCHANGED << inputVars, pc, exit_code, cfgVars, paths, count, done_count,
                  taskVars, disk, writers, crashed >>

\* main.cpp:311-327.  The skip-if-exists check at the start of the task.
CheckSkip(w) ==
  /\ ~crashed
  /\ worker[w] # "idle"
  /\ LET f == worker[w]
     IN /\ st[f] = "Pending"
        /\ IF Exists(f) /\ args.skip_if_exists
           THEN /\ done_count' = done_count + 1
                /\ st' = [st EXCEPT ![f] = "Done"]
                /\ worker' = [worker EXCEPT ![w] = "idle"]
           ELSE /\ st' = [st EXCEPT ![f] = "Decoding"]
                /\ UNCHANGED << done_count, worker >>
  /\ UNCHANGED << inputVars, pc, exit_code, cfgVars, paths, count, queue,
                  calls, input_data, output_data, line, disk, writers,
                  crashed >>

\* main.cpp:329-344.  The input is read by its extension and the output
\* buffer is allocated from the input's size.  A file with another extension
\* (--single only) is not read at all: width, height and data of input stay
\* uninitialized, and what follows is undefined.
Decode(w) ==
  /\ ~crashed
  /\ worker[w] # "idle"
  /\ LET f == worker[w]
     IN /\ st[f] = "Decoding"
        /\ IF Extension(f) \in { ".exr", ".png" }
           THEN IF f \in corrupt
                THEN Catch(w, f)
                ELSE /\ calls' = [calls EXCEPT ![f] = @ \cup {"decode"}]
                     /\ input_data' = [input_data EXCEPT ![f] = TRUE]
                     /\ output_data' = [output_data EXCEPT ![f] = TRUE]
                     /\ st' = [st EXCEPT ![f] = "Reprojecting"]
                     /\ UNCHANGED << done_count, worker, line, disk, writers,
                                     crashed >>
           ELSE \/ /\ output_data' = [output_data EXCEPT ![f] = TRUE]
                   /\ st' = [st EXCEPT ![f] = "Reprojecting"]
                   /\ UNCHANGED << done_count, worker, line, disk, writers,
                                   crashed, calls, input_data >>
                \/ Catch(w, f)
                \/ /\ crashed' = TRUE
                   /\ UNCHANGED << done_count, worker, line, disk, writers,
                                   calls, input_data, output_data, st >>
  /\ UNCHANGED << inputVars, pc, exit_code, cfgVars, paths, count, queue >>

\* main.cpp:346-352.  A pass-through copy, or the reprojection, which may
\* throw.
Reproject(w) ==
  /\ ~crashed
  /\ worker[w] # "idle"
  /\ LET f == worker[w]
     IN /\ st[f] = "Reprojecting"
        /\ IF ~reproject /\ args.scale.num = args.scale.den
           THEN /\ calls' = [calls EXCEPT ![f] = @ \cup {"memcpy"}]
                /\ st' = [st EXCEPT ![f] = "ColorProcessing"]
                /\ UNCHANGED << done_count, worker, line, input_data,
                                output_data, disk, writers, crashed >>
           ELSE \/ /\ calls' = [calls EXCEPT ![f] = @ \cup {"reproject"}]
                   /\ st' = [st EXCEPT ![f] = "ColorProcessing"]
                   /\ UNCHANGED << done_count, worker, line, input_data,
                                   output_data, disk, writers, crashed >>
                \/ Catch(w, f)
  /\ UNCHANGED << inputVars, pc, exit_code, cfgVars, paths, count, queue >>

\* main.cpp:354-358.  Auto exposure, which may throw; with the default
\* exposure and reinhard values nothing is called.
ColorProcess(w) ==
  /\ ~crashed
  /\ worker[w] # "idle"
  /\ LET f == worker[w]
     IN /\ st[f] = "ColorProcessing"
        /\ IF args.auto_exposure
           THEN \/ /\ calls' = [calls EXCEPT ![f] = @ \cup {"auto_exposure"}]
                   /\ st' = [st EXCEPT ![f] = "Encoding"]
                   /\ UNCHANGED << done_count, worker, line, input_data,
                                   output_data, disk, writers, crashed >>
                \/ Catch(w, f)
           ELSE /\ st' = [st EXCEPT ![f] = "Encoding"]
                /\ UNCHANGED << done_count, worker, line, input_data,
                                output_data, disk, writers, crashed, calls >>
  /\ UNCHANGED << inputVars, pc, exit_code, cfgVars, paths, count, queue >>

\* main.cpp:360-362.  save_png writes the PNG output, or throws.
SavePng(w) ==
  /\ ~crashed
  /\ worker[w] # "idle"
  /\ args.store_png
  /\ LET f == worker[w]
     IN /\ st[f] = "Encoding"
        /\ "save_png" \notin calls[f]
        /\ \/ /\ calls' = [calls EXCEPT ![f] = @ \cup {"save_png"}]
              /\ disk' = [disk EXCEPT ![output_path_png(f)] = f]
              /\ writers' = [writers EXCEPT ![output_path_png(f)] = @ \cup {f}]
              /\ UNCHANGED << done_count, worker, line, input_data,
                              output_data, st, crashed >>
           \/ Catch(w, f)
  /\ UNCHANGED << inputVars, pc, exit_code, cfgVars, paths, count, queue >>

\* main.cpp:363-365.  save_exr writes the EXR output, or throws.
SaveExr(w) ==
  /\ ~crashed
  /\ worker[w] # "idle"
  /\ args.store_exr
  /\ LET f == worker[w]
     IN /\ st[f] = "Encoding"
        /\ args.store_png => "save_png" \in calls[f]
        /\ "save_exr" \notin calls[f]
        /\ \/ /\ calls' = [calls EXCEPT ![f] = @ \cup {"save_exr"}]
              /\ disk' = [disk EXCEPT ![output_path_exr(f)] = f]
              /\ writers' = [writers EXCEPT ![output_path_exr(f)] = @ \cup {f}]
              /\ UNCHANGED << done_count, worker, line, input_data,
                              output_data, st, crashed >>
           \/ Catch(w, f)
  /\ UNCHANGED << inputVars, pc, exit_code, cfgVars, paths, count, queue >>

\* main.cpp:367-371.  Both buffers are deleted, done_count is incremented
\* and the progress line is printed with the value count has at that moment.
Finish(w) ==
  /\ ~crashed
  /\ worker[w] # "idle"
  /\ LET f == worker[w]
     IN /\ st[f] = "Encoding"
        /\ args.store_png => "save_png" \in calls[f]
        /\ args.store_exr => "save_exr" \in calls[f]
        /\ input_data' = [input_data EXCEPT ![f] = FALSE]
        /\ output_data' = [output_data EXCEPT ![f] = FALSE]
        /\ done_count' = done_count + 1
        /\ line' = [line EXCEPT ![f] = << done_count + 1, count >>]
        /\ st' = [st EXCEPT ![f] = "Done"]
        /\ worker' = [worker EXCEPT ![w] = "idle"]
  /\ UNCHANGED << inputVars, pc, exit_code, cfgVars, paths, count, queue,
                  calls, disk, writers, crashed >>

Main ==
  \/ ParseArgs \/ LoadConfig \/ SelectOutputLens \/ SaveConfig
  \/ DryRunExit \/ CreatePool \/ SkipEntry \/ SubmitPush \/ SubmitCount
  \/ PoolStop \/ PoolJoin

Next ==
  \/ Main
  \/ \E w \in DOMAIN worker : Take(w)
  \/ \E w \in DOMAIN worker : CheckSkip(w)
  \/ \E w \in DOMAIN worker : Decode(w)
  \/ \E w \in DOMAIN worker : Reproject(w)
  \/ \E w \in DOMAIN worker : ColorProcess(w)
  \/ \E w \in DOMAIN worker : SavePng(w)
  \/ \E w \in DOMAIN worker : SaveExr(w)
  \/ \E w \in DOMAIN worker : Finish(w)

Spec == Init /\ [][Next]_vars

\* ------------------------------------------------------------------ claims

Terminal(f) == st[f] \in { "Done", "Failed" }

\* The input files main submits: N is their number.
SubmittedFiles == { f \in Range(dir) : Accepted(f) }

\* Every selected output format of f is on disk.
AllSelectedOnDisk(d, f) ==
  /\ args.store_png => d[ReplaceExtension(f, ".png")] # "absent"
  /\ args.store_exr => d[ReplaceExtension(f, ".exr")] # "absent"

\* C1.  Once pool.stop(true) has returned, each of the N submitted items is
\* Done or Failed: N terminal items, none pending, queued or in flight.
C1_ShutdownBarrier ==
  pc = "returned" =>
    /\ \A f \in SubmittedFiles : Terminal(f)
    /\ Cardinality({ f \in FileSet : Terminal(f) }) = Cardinality(SubmittedFiles)
    /\ \A f \in FileSet : st[f] \in { "None", "Done", "Failed" }
    /\ queue = << >>
    /\ \A w \in DOMAIN worker : worker[w] = "idle"

\* C1 witness: shutdown has returned after two items, one Done, one Failed.
C1_Witness ==
  /\ pc = "returned"
  /\ Cardinality(SubmittedFiles) = 2
  /\ \E f, g \in SubmittedFiles : st[f] = "Done" /\ st[g] = "Failed"

\* C2.  done_count never decreases; every step raises it by the number of
\* items that become Done in that step (completed or skipped), so not for an
\* item that becomes Failed; it always equals the number of Done items, and
\* at shutdown count - done_count is the number of Failed items.
C2_DoneCount ==
  /\ [](done_count = Cardinality({ f \in FileSet : st[f] = "Done" }))
  /\ [](pc = "returned" =>
          count - done_count = Cardinality({ f \in FileSet : st[f] = "Failed" }))
  /\ [][ /\ done_count' >= done_count
         /\ done_count' = done_count
              + Cardinality({ f \in FileSet : st[f] # "Done" /\ st'[f] = "Done" })
       ]_vars

\* C2 witness: at shutdown one item completed, one failed, done_count is 1.
C2_Witness ==
  /\ pc = "returned"
  /\ done_count = 1
  /\ \E f, g \in FileSet :
       /\ st[f] = "Done" /\ "decode" \in calls[f]
       /\ st[g] = "Failed"

\* The terminal state of f, run by a single worker, when no sibling fails:
\* skipped when skip-if-exists is on and its outputs were there at the start
\* or an earlier sibling produced them, else Failed on its own error, else
\* Done.
OutcomeIfSiblingsSucceed(f) ==
  IF /\ args.skip_if_exists
     /\ \/ AllSelectedOnDisk([o \in OutPaths |->
                                IF o \in disk0 THEN "old" ELSE "absent"], f)
        \/ \E i, j \in 1..Len(dir) :
             /\ i < j /\ dir[j] = f /\ Accepted(dir[i])
             /\ Stem(dir[i]) = Stem(f)
  THEN "Done"
  ELSE IF f \in corrupt \/ st[f] = "Failed" THEN "Failed" ELSE "Done"

\* C3.  With one worker, an item that ends while a sibling has Failed ends in
\* the terminal state it would have reached had no sibling failed.
C3_FailureIsolated ==
  \A f \in FileSet :
    ( /\ args.num_threads = 1
      /\ Terminal(f)
      /\ \E g \in FileSet \ {f} : st[g] = "Failed" )
    => st[f] = OutcomeIfSiblingsSucceed(f)

\* C4.  The step that ends the skip check of an item: with skip-if-exists on
\* and every selected output on disk the item becomes Done, nothing has been
\* called or allocated for it and done_count goes up by one; otherwise
\* (skip-if-exists off, or an output missing) the item goes on to Decoding.
C4_SkipIfExists ==
  [][ \A f \in FileSet :
        (st[f] = "Pending" /\ st'[f] # "Pending") =>
          IF args.skip_if_exists /\ AllSelectedOnDisk(disk, f)
          THEN /\ st'[f] = "Done"
               /\ calls'[f] = {}
               /\ ~input_data'[f] /\ ~output_data'[f]
               /\ done_count' = done_count + 1
          ELSE /\ st'[f] = "Decoding"
               /\ done_count' = done_count
    ]_vars

\* C4 witness: with both formats selected an item was skipped: Done with no
\* call made for it, and counted.
C4_Witness ==
  /\ args.skip_if_exists /\ args.store_png /\ args.store_exr
  /\ \E f \in FileSet :
       /\ st[f] = "Done" /\ calls[f] = {}
       /\ ~input_data[f] /\ ~output_data[f]
  /\ done_count >= 1

\* C5.  No output path is written by two different items (so what a path
\* holds in the end does not depend on the order the items ran in).
C5_OrderIndependent ==
  \A o \in OutPaths : Cardinality(writers[o]) <= 1

\* C6.  If the number of output-lens options given is not exactly one, main
\* leaves the lens selection with exit status 1, the output config is not
\* written and nothing is submitted.
C6_LensSelectionFatal ==
  (Cardinality(args.lens) # 1 /\ pc \notin { "parse", "load", "lens" }) =>
    /\ pc = "exit_error"
    /\ exit_code = "1"
    /\ saved_cfg = << >>
    /\ count = 0 /\ queue = << >>
    /\ \A f \in FileSet : st[f] = "None"

\* C7.  The saved output config carries the scaled resolution
\* [int(res_x * s), int(res_y * s)].
C7_SavedResolutionScaled ==
  saved_cfg # << >> =>
    saved_cfg[1].resolution =
      << ScaleInt(res[1], args.scale), ScaleInt(res[2], args.scale) >>

\* C8.  An item's stage and the calls made for it agree with the order
\* decode, reproject (or copy), colour processing, encode: an item at or
\* past Reprojecting that was not skipped has been decoded, no later stage's
\* call precedes an earlier stage, and no two workers run the same item.
C8_StageOrder ==
  /\ \A f \in FileSet :
       /\ st[f] \in { "None", "Pending", "Decoding" } => calls[f] = {}
       /\ st[f] \in { "Reprojecting", "ColorProcessing", "Encoding" } =>
            "decode" \in calls[f]
       /\ (st[f] = "Done" /\ calls[f] # {}) => "decode" \in calls[f]
       /\ st[f] = "Reprojecting" => calls[f] \subseteq { "decode" }
       /\ st[f] = "ColorProcessing" =>
            calls[f] \subseteq { "decode", "reproject", "memcpy" }
       /\ calls[f] \cap { "save_png", "save_exr" } # {} =>
            calls[f] \cap { "reproject", "memcpy" } # {}
  /\ \A v, w \in DOMAIN worker :
       (v # w /\ worker[v] # "idle") => worker[v] # worker[w]

\* C9.  An item in a terminal state holds neither of its pixel buffers.
C9_BuffersReleased ==
  \A f \in FileSet : Terminal(f) => ~input_data[f] /\ ~output_data[f]

\* C10.  The total of every progress line is the number of items submitted
\* and is not below the completed count printed with it.
C10_ProgressTotal ==
  \A f \in FileSet :
    line[f] # << >> =>
      /\ line[f][2] = Cardinality(SubmittedFiles)
      /\ line[f][2] >= line[f][1]

====
